---- MODULE Spec2Model ----
(***************************************************************************)
(* A model of plusplus: the bytecode rewriter of plusplus/patching.py      *)
(* (patch_code and its helpers), the stack machine the rewritten code runs *)
(* on, and the import-path registry of plusplus/wrappers.py.               *)
(***************************************************************************)
EXTENDS Integers, Sequences, FiniteSets, TLC

\* ------------------------------------------------------------------ bounds

\* Longest input sequence, in tokens, the rewriter is run on.
MaxTokens == 5

\* Calls of register_import_path each thread makes.
MaxCalls == 2

\* ------------------------------------------------- items of a Bytecode list

\* bytecode.Instr(name, arg, lineno=...): the argument is a name (arg), a
\* number (n) or a nested code object (code, a sequence of length 0 or 1);
\* lineno 0 is None.
Instr(name, arg, n, code, lineno) ==
    [kind |-> "Instr", name |-> name, arg |-> arg, n |-> n, code |-> code,
     lineno |-> lineno]

\* bytecode.SetLineno(lineno)
SetLineno(lineno) ==
    [kind |-> "SetLineno", name |-> "", arg |-> "", n |-> 0, code |-> << >>,
     lineno |-> lineno]

\* bytecode.Label(): a jump target, an item of the list that is no Instr.
Label(id) ==
    [kind |-> "Label", name |-> "", arg |-> id, n |-> 0, code |-> << >>,
     lineno |-> 0]

\* isinstance(item, Instr)
IsInstr(item) == item.kind = "Instr"

\* Instr(name) / Instr(name, n) as patch_increment_region builds them: no lineno.
Op(name) == Instr(name, "", 0, << >>, 0)
OpN(name, n) == Instr(name, "", n, << >>, 0)

\* A code object: its name and its instructions as Bytecode.from_code lists them.
Code(co_name, instrs) == [co_name |-> co_name, instrs |-> instrs]

\* ------------------------------------------------------------ Python lists

Min(a, b) == IF a < b THEN a ELSE b

\* s[a:b], 0-based and clipped to the list as Python clips it.
Slice(s, a, b) == SubSeq(s, Min(a, Len(s)) + 1, Min(b, Len(s)))

\* s[a:b] = []
DelSlice(s, a, b) == Slice(s, 0, a) \o Slice(s, b, Len(s))

\* d.get(k, [])
Get(d, k) == IF k \in DOMAIN d THEN d[k] ELSE << >>

\* ---------------------------------------------------------------- tables

\* A table with the two operations exchanged.
UNARY_TO_INPLACE_OP_Swapped ==
    [UNARY_POSITIVE |-> "INPLACE_SUBTRACT", UNARY_NEGATIVE |-> "INPLACE_ADD"]

UNARY_TO_INPLACE_OP ==
    [UNARY_POSITIVE |-> "INPLACE_ADD", UNARY_NEGATIVE |-> "INPLACE_SUBTRACT"]

LOAD_TO_STORE_OP ==
    [LOAD_DEREF |-> "STORE_DEREF", LOAD_FAST |-> "STORE_FAST",
     LOAD_GLOBAL |-> "STORE_GLOBAL", LOAD_NAME |-> "STORE_NAME",
     LOAD_ATTR |-> "STORE_ATTR", BINARY_SUBSCR |-> "STORE_SUBSCR"]

\* A PRE_LOAD_HOOK that keeps no copy of the container and index.
PRE_LOAD_HOOK_NoCopy ==
    [LOAD_ATTR |-> << Op("DUP_TOP") >>,
     BINARY_SUBSCR |-> << Op("DUP_TOP_TWO"), Op("BINARY_SUBSCR"), Op("ROT_THREE") >>]

PRE_LOAD_HOOK ==
    [LOAD_ATTR |-> << Op("DUP_TOP") >>,
     BINARY_SUBSCR |->
        << Op("DUP_TOP_TWO"), OpN("BUILD_TUPLE", 2), Op("ROT_THREE") >>]

\* A PRE_STORE_HOOK that rotates once instead of twice.
PRE_STORE_HOOK_OneRot ==
    [STORE_ATTR |-> << Op("ROT_THREE") >>,
     STORE_SUBSCR |->
        << Op("ROT_THREE"), OpN("UNPACK_SEQUENCE", 2), Op("ROT_TWO") >>]

PRE_STORE_HOOK ==
    [STORE_ATTR |-> << Op("ROT_THREE"), Op("ROT_THREE") >>,
     STORE_SUBSCR |->
        << Op("ROT_THREE"), Op("ROT_THREE"), OpN("UNPACK_SEQUENCE", 2),
           Op("ROT_TWO") >>]

\* The names for which arg.startswith('@py_assert') is true; strings are
\* atoms here, so the prefix test is membership.
PyAssertNames == {"@py_assert1", "@py_assert3"}

StartsWithPyAssert(arg) == arg \in PyAssertNames

\* ----------------------------------------------------------- the patches

\* Patch(n_removed, added); kind "none" is the None a matcher returns, kind
\* "error" the SyntaxError make_syntax_error builds (its line and code name).
Patch(n_removed, added) ==
    [kind |-> "patch", n_removed |-> n_removed, added |-> added,
     lineno |-> 0, co_name |-> ""]

NoPatch ==
    [kind |-> "none", n_removed |-> 0, added |-> << >>, lineno |-> 0,
     co_name |-> ""]

make_syntax_error(lineno, co_name) ==
    [kind |-> "error", n_removed |-> 0, added |-> << >>, lineno |-> lineno,
     co_name |-> co_name]

is_pytest_intermediate_value_capturing(region) ==
    /\ \A i \in 1..Len(region) : IsInstr(region[i])
    /\ [i \in 1..Len(region) |-> region[i].name] = << "STORE_FAST", "LOAD_FAST" >>
    /\ region[1].arg = region[2].arg
    /\ StartsWithPyAssert(region[1].arg)

\* A replacement that stores the result and keeps no copy of it.
Replacement_NoDup(load_instr, unary_instr) ==
    << SetLineno(load_instr.lineno) >>
    \o Get(PRE_LOAD_HOOK, load_instr.name)
    \o << load_instr,
          OpN("LOAD_CONST", 1),
          Op(UNARY_TO_INPLACE_OP[unary_instr.name]) >>
    \o Get(PRE_STORE_HOOK, LOAD_TO_STORE_OP[load_instr.name])
    \o << Instr(LOAD_TO_STORE_OP[load_instr.name], load_instr.arg, load_instr.n,
                load_instr.code, 0) >>

\* The replacement sequence of lines 53-64.
Replacement(load_instr, unary_instr) ==
    LET store_op == LOAD_TO_STORE_OP[load_instr.name]
    IN  << SetLineno(load_instr.lineno) >>
        \o Get(PRE_LOAD_HOOK, load_instr.name)
        \o << load_instr,
              OpN("LOAD_CONST", 1),
              Op(UNARY_TO_INPLACE_OP[unary_instr.name]),
              Op("DUP_TOP") >>
        \o Get(PRE_STORE_HOOK, store_op)
        \o << Instr(store_op, load_instr.arg, load_instr.n, load_instr.code, 0) >>

\* Lines 37-40: the second tentative removal, on the region the first one
\* left, with the count of items removed so far.
RemoveSecond(region, n_removed) ==
    IF is_pytest_intermediate_value_capturing(Slice(region, 2, 4))
    THEN [region |-> DelSlice(region, 2, 4), n_removed |-> n_removed + 2]
    ELSE [region |-> region, n_removed |-> n_removed]

\* Lines 31-40: the region after the two tentative removals, with n_removed.
RemoveCapturing(region) ==
    IF is_pytest_intermediate_value_capturing(Slice(region, 1, 3))
    THEN RemoveSecond(DelSlice(region, 1, 3), 3 + 2)
    ELSE RemoveSecond(region, 3)

\* The structural check of lines 42-45.
IsMarker(region) ==
    /\ Len(region) >= 3
    /\ \A i \in 1..3 : IsInstr(region[i])
    /\ region[2].name \in DOMAIN UNARY_TO_INPLACE_OP
    /\ region[2].name = region[3].name

\* Lines 42-66, on the region as the removals left it.
MatchMarker(region, n_removed, co_name) ==
    IF ~IsMarker(region) THEN NoPatch
    ELSE IF region[1].name \notin DOMAIN LOAD_TO_STORE_OP
         THEN make_syntax_error(region[1].lineno, co_name)
         ELSE Patch(n_removed, Replacement(region[1], region[2]))

MatchRemoved(rc, co_name) == MatchMarker(rc.region, rc.n_removed, co_name)

patch_increment_region(region, co_name) ==
    MatchRemoved(RemoveCapturing(region), co_name)

\* ---------------------------------------------------- code <-> Bytecode

\* Bytecode.from_code(code): the list of the unit's instructions and labels.
FromCode(code) == code.instrs

\* The line each instruction is compiled with by to_code(): a SetLineno sets
\* the current line and is dropped, an Instr without a line takes the current
\* one, an Instr with a line sets it.
RECURSIVE ResolveLineno(_, _)
ResolveLineno(items, cur) ==
    IF items = << >> THEN << >>
    ELSE LET it == Head(items)
         IN  IF it.kind = "SetLineno" THEN ResolveLineno(Tail(items), it.lineno)
             ELSE IF it.kind = "Label" THEN << it >> \o ResolveLineno(Tail(items), cur)
             ELSE LET l == IF it.lineno = 0 THEN cur ELSE it.lineno
                  IN  << [it EXCEPT !.lineno = l] >> \o ResolveLineno(Tail(items), l)

\* bytecode.to_code()
ToCode(co_name, items) == Code(co_name, ResolveLineno(items, 0))

\* ------------------------------------------------------------ patch_code

RECURSIVE patch_code(_)

\* The result of patch_code: the rewritten code object, or the SyntaxError
\* that left it (ok = FALSE, with the error's line and code name).
Returned(code) == [ok |-> TRUE, code |-> code, lineno |-> 0, co_name |-> ""]

Raised(lineno, co_name) ==
    [ok |-> FALSE, code |-> Code("", << >>), lineno |-> lineno, co_name |-> co_name]

\* A patch_load_code_region that embeds the nested unit as it was.
patch_load_code_region_NoDescent(region) ==
    IF ~(IsInstr(region[1]) /\ region[1].name = "LOAD_CONST" /\ region[1].code # << >>)
    THEN NoPatch
    ELSE Patch(1, << Instr("LOAD_CONST", region[1].arg, region[1].n,
                           region[1].code, region[1].lineno) >>)

\* Lines 76-79: the LOAD_CONST that carries what patch_code made of the
\* nested unit; a SyntaxError of the nested patch_code propagates.
Reembed(load_const_instr, inner) ==
    IF ~inner.ok THEN make_syntax_error(inner.lineno, inner.co_name)
    ELSE Patch(1, << Instr("LOAD_CONST", load_const_instr.arg,
                           load_const_instr.n, << inner.code >>,
                           load_const_instr.lineno) >>)

\* isinstance(region[0].arg, CodeType) is region[1].code # << >>.
patch_load_code_region(region) ==
    IF ~(IsInstr(region[1]) /\ region[1].name = "LOAD_CONST" /\ region[1].code # << >>)
    THEN NoPatch
    ELSE Reembed(region[1], patch_code(region[1].code[1]))

\* A window that is cut one item short of the seven the matcher needs.
Window_Short(bytecode, index) == Slice(bytecode, index, index + 6)

\* bytecode[index:index + 7]
Window(bytecode, index) == Slice(bytecode, index, index + 7)

\* A default patch that skips the item after the one it copies.
DefaultPatch_SkipNext(bytecode, index) ==
    Patch(Min(2, Len(bytecode) - index), << bytecode[index + 1] >>)

\* Patch(n_removed=1, added=[bytecode[index]])
DefaultPatch(bytecode, index) == Patch(1, << bytecode[index + 1] >>)

\* Lines 16-17: the default patch unless the nested-unit patch applies.
OrDefault(bytecode, index, p2) ==
    IF p2.kind # "none" THEN [via |-> "load_code", patch |-> p2]
    ELSE [via |-> "default", patch |-> DefaultPatch(bytecode, index)]

\* Lines 14-15: the nested-unit patch unless the increment patch applies.
OrLoadCode(bytecode, index, p1) ==
    IF p1.kind # "none" THEN [via |-> "increment", patch |-> p1]
    ELSE OrDefault(bytecode, index,
                   patch_load_code_region(Slice(bytecode, index, index + 1)))

\* Lines 13-17: the patch chosen at index, with the branch that chose it.
PatchAt(bytecode, index, co_name) ==
    OrLoadCode(bytecode, index,
               patch_increment_region(Window(bytecode, index), co_name))

RECURSIVE ScanFrom(_, _, _, _, _)

\* Lines 19-20 with the patch `at` chose: the loop goes on behind it, or the
\* SyntaxError leaves the loop.
Advance(bytecode, index, new_bytecode, chosen, co_name, at) ==
    IF at.patch.kind = "error"
    THEN [ok |-> FALSE, index |-> index, new_bytecode |-> new_bytecode,
          patches |-> chosen, lineno |-> at.patch.lineno,
          co_name |-> at.patch.co_name]
    ELSE ScanFrom(bytecode, index + at.patch.n_removed,
                  new_bytecode \o at.patch.added,
                  Append(chosen, [start |-> index, via |-> at.via,
                                  n_removed |-> at.patch.n_removed,
                                  added |-> at.patch.added]),
                  co_name)

\* The loop of lines 12-20 from `index` on: where it stopped, what it
\* accumulated, the patches it chose, and the SyntaxError if one left it.
ScanFrom(bytecode, index, new_bytecode, chosen, co_name) ==
    IF index >= Len(bytecode)
    THEN [ok |-> TRUE, index |-> index, new_bytecode |-> new_bytecode,
          patches |-> chosen, lineno |-> 0, co_name |-> ""]
    ELSE Advance(bytecode, index, new_bytecode, chosen, co_name,
                 PatchAt(bytecode, index, co_name))

\* The loop of patch_code on a code object.
Scan(code) == ScanFrom(FromCode(code), 0, << >>, << >>, code.co_name)

\* Lines 22-24: the code object of the accumulated list, or the SyntaxError.
Outcome(co_name, scan) ==
    IF scan.ok THEN Returned(ToCode(co_name, scan.new_bytecode))
    ELSE Raised(scan.lineno, scan.co_name)

patch_code(code) == Outcome(code.co_name, Scan(code))

\* ------------------------------------------------------------------- state

\* patch_code on an input.
VARIABLES
    ntokens,        \* tokens the input was built from
    bytecode,       \* patch_code: Bytecode.from_code(code)
    index,          \* patch_code: index, where the loop stopped
    new_bytecode,   \* patch_code: new_bytecode
    patches,        \* the patch of each iteration: where, by which branch, what
    pc,             \* "input", "returned", "raised", "again"
    result,         \* what patch_code returned or raised
    again           \* what patch_code returned or raised on its own output

rwVars == << ntokens, bytecode, index, new_bytecode, patches, pc,
             result, again >>

\* The stack machine on a marker as compiled and as rewritten.
VARIABLES
    scenario,   \* the marker that is run: its target, signs, captures, start
    vmO,        \* the frame that runs the input as compiled
    vmR         \* the frame that runs what patch_code returned for it

vmVars == << scenario, vmO, vmR >>

\* PatchingFinder's registry and the threads that register import paths.
VARIABLES
    meta_path,              \* sys.meta_path
    _patched_import_paths,  \* PatchingFinder._patched_import_paths
    thread,                 \* per thread: where it is in register_import_path
    registered              \* the paths whose registration has returned

regVars == << meta_path, _patched_import_paths, thread, registered >>

vars == << rwVars, vmVars, regVars >>

\* ------------------------------------------------ the rewriter's inputs

\* The pieces inputs are built from; each item takes its line from its place.
TokenNames == {"load", "const", "pos", "neg", "capture", "label"}

TokenItems(tok) ==
    CASE tok = "load" -> << Instr("LOAD_FAST", "x", 0, << >>, 0) >>
      [] tok = "const" -> << Instr("LOAD_CONST", "non-incrementable", 0, << >>, 0) >>
      [] tok = "pos" -> << Instr("UNARY_POSITIVE", "", 0, << >>, 0) >>
      [] tok = "neg" -> << Instr("UNARY_NEGATIVE", "", 0, << >>, 0) >>
      [] tok = "capture" -> << Instr("STORE_FAST", "@py_assert1", 0, << >>, 0),
                               Instr("LOAD_FAST", "@py_assert1", 0, << >>, 0) >>
      [] tok = "label" -> << Label("L") >>

\* The items of a token placed after `at` items: an Instr at place p is on line p.
Placed(items, at) ==
    [i \in 1..Len(items) |->
        IF IsInstr(items[i]) THEN [items[i] EXCEPT !.lineno = at + i] ELSE items[i]]

RwInit ==
    /\ ntokens = 0
    /\ bytecode = << >>
    /\ index = 0
    /\ new_bytecode = << >>
    /\ patches = << >>
    /\ pc = "input"
    /\ result = Returned(Code("", << >>))
    /\ again = Returned(Code("", << >>))

\* The input grows by one token.
AddToken(tok) ==
    /\ pc = "input"
    /\ ntokens < MaxTokens
    /\ ntokens' = ntokens + 1
    /\ bytecode' = bytecode \o Placed(TokenItems(tok), Len(bytecode))
    /\ UNCHANGED << index, new_bytecode, patches, pc, result, again >>
    /\ UNCHANGED << vmVars, regVars >>

\* The items from place `from` on become the body of a nested function,
\* which the input loads there with LOAD_CONST <code>: nesting of any depth
\* is built by wrapping again.
Wrap(from) ==
    /\ pc = "input"
    /\ ntokens < MaxTokens
    /\ from < Len(bytecode)
    /\ ntokens' = ntokens + 1
    /\ bytecode' = Slice(bytecode, 0, from) \o
                   << Instr("LOAD_CONST", "", 0,
                            << Code("nested", Slice(bytecode, from, Len(bytecode))) >>,
                            from + 1) >>
    /\ UNCHANGED << index, new_bytecode, patches, pc, result, again >>
    /\ UNCHANGED << vmVars, regVars >>

\* patch_code(code) runs on the input: it returns the rewritten code object
\* or raises SyntaxError.
Call ==
    /\ pc = "input"
    /\ \E scan \in {Scan(Code("f", bytecode))} :
           /\ index' = scan.index
           /\ new_bytecode' = scan.new_bytecode
           /\ patches' = scan.patches
           /\ pc' = IF scan.ok THEN "returned" ELSE "raised"
           /\ result' = Outcome("f", scan)
    /\ UNCHANGED << ntokens, bytecode, again >>
    /\ UNCHANGED << vmVars, regVars >>

\* patch_code is applied to the code object it returned (a decorated
\* function of a registered package is rewritten by both).
Repatch ==
    /\ pc = "returned"
    /\ pc' = "again"
    /\ again' = patch_code(result.code)
    /\ UNCHANGED << ntokens, bytecode, index, new_bytecode, patches, result >>
    /\ UNCHANGED << vmVars, regVars >>

\* ------------------------------------------------ what the claims speak of

IsSign(item) == IsInstr(item) /\ item.name \in DOMAIN UNARY_TO_INPLACE_OP

IsSupportedLoad(item) == IsInstr(item) /\ item.name \in DOMAIN LOAD_TO_STORE_OP

IsCodeLoad(item) == IsInstr(item) /\ item.name = "LOAD_CONST" /\ item.code # << >>

IsCapturePair(a, b) ==
    /\ IsInstr(a) /\ IsInstr(b)
    /\ a.name = "STORE_FAST" /\ b.name = "LOAD_FAST"
    /\ a.arg = b.arg /\ a.arg \in PyAssertNames

\* w is a marker: a supported load, a capture pair if afterLoad, a sign, a
\* capture pair if afterSign, the same sign again, and nothing more.
MarkerWithCaptures(w, afterLoad, afterSign) ==
    LET s1 == 2 + (IF afterLoad THEN 2 ELSE 0)
        s2 == s1 + 1 + (IF afterSign THEN 2 ELSE 0)
    IN  /\ Len(w) = s2
        /\ IsSupportedLoad(w[1])
        /\ afterLoad => IsCapturePair(w[2], w[3])
        /\ IsSign(w[s1])
        /\ afterSign => IsCapturePair(w[s1 + 1], w[s1 + 2])
        /\ IsSign(w[s2])
        /\ w[s1].name = w[s2].name

WindowLen(afterLoad, afterSign) ==
    3 + (IF afterLoad THEN 2 ELSE 0) + (IF afterSign THEN 2 ELSE 0)

\* A marker, with or without capture pairs, starts at place p (0-based) of seq.
MarkerAt(seq, p) ==
    \E a, b \in BOOLEAN :
        MarkerWithCaptures(Slice(seq, p, p + WindowLen(a, b)), a, b)

\* A marker is left somewhere in the unit or in a unit nested in it.
RECURSIVE HasMarkerDeep(_)
HasMarkerDeep(code) ==
    \/ \E p \in 0..(Len(code.instrs) - 1) : MarkerAt(code.instrs, p)
    \/ \E i \in 1..Len(code.instrs) :
           /\ IsCodeLoad(code.instrs[i])
           /\ HasMarkerDeep(code.instrs[i].code[1])

\* How deep units are nested in the unit.
RECURSIVE Depth(_)
Depth(code) ==
    LET ds == { 1 + Depth(code.instrs[i].code[1]) :
                  i \in { j \in 1..Len(code.instrs) : IsCodeLoad(code.instrs[j]) } }
    IN  IF ds = {} THEN 0 ELSE CHOOSE d \in ds : \A e \in ds : e <= d

\* The items the patches added, in order.
RECURSIVE Added(_)
Added(ps) == IF ps = << >> THEN << >> ELSE Head(ps).added \o Added(Tail(ps))

\* Where patch k of the log ends: the place the scan resumes at.
EndOf(k) == patches[k].start + patches[k].n_removed

Scanned == pc \in {"returned", "raised", "again"}

Finished == pc \in {"returned", "again"}

\* ------------------------------------------------------------------ C2

\* Two identical signs follow directly on an instruction that is neither a
\* supported load nor that same sign.
SignsOnUnsupported(seq) ==
    \E i \in 1..(Len(seq) - 2) :
        /\ IsInstr(seq[i]) /\ ~IsSupportedLoad(seq[i])
        /\ IsSign(seq[i + 1]) /\ IsSign(seq[i + 2])
        /\ seq[i + 1].name = seq[i + 2].name
        /\ seq[i].name # seq[i + 1].name

\* C2: whenever the input applies a doubled sign to a value that no
\* supported load produced, patch_code raises SyntaxError and returns nothing.
C2_UnsupportedTargetRejected ==
    (Scanned /\ SignsOnUnsupported(bytecode)) => pc = "raised"

\* ------------------------------------------------------------------ C6

\* C6: every LOAD_CONST of a code object is consumed as one instruction and
\* replaced by one LOAD_CONST on the same line, whose nested unit is what
\* patch_code returns for the nested unit and holds no marker at any depth.
C6_NestedUnitsRewritten ==
    Finished =>
        \A i \in 1..Len(bytecode) :
            IsCodeLoad(bytecode[i]) =>
                \E k \in 1..Len(patches) :
                    /\ patches[k].start = i - 1
                    /\ patches[k].via = "load_code"
                    /\ patches[k].n_removed = 1
                    /\ Len(patches[k].added) = 1
                    /\ IsCodeLoad(patches[k].added[1])
                    /\ patches[k].added[1].lineno = bytecode[i].lineno
                    /\ patches[k].added[1] =
                           [bytecode[i] EXCEPT !.code = patches[k].added[1].code]
                    /\ ~HasMarkerDeep(patches[k].added[1].code[1])
                    /\ Returned(patches[k].added[1].code[1]) =
                           patch_code(bytecode[i].code[1])

\* A unit nested two deep, with a marker in the innermost one, was rewritten.
C6_Witness ==
    /\ pc = "returned"
    /\ \E i \in 1..Len(bytecode) :
           /\ IsCodeLoad(bytecode[i])
           /\ Depth(bytecode[i].code[1]) >= 1
           /\ HasMarkerDeep(bytecode[i].code[1])

\* ------------------------------------------------------------------ C7

\* C7: a marker the scan reaches, with a capture pair after its load and/or
\* after its first sign, gets the patch of the plain marker (load, sign,
\* sign); the patch consumes 3 items plus 2 per pair, and the scan resumes
\* right after the second sign.
C7_ArtifactTolerance ==
    Scanned =>
        \A k \in 1..Len(patches) : \A a, b \in BOOLEAN :
            LET p == patches[k].start
                w == Slice(bytecode, p, p + WindowLen(a, b))
            IN  MarkerWithCaptures(w, a, b) =>
                    /\ patches[k].via = "increment"
                    /\ patches[k].n_removed = WindowLen(a, b)
                    /\ patches[k].added =
                           patch_increment_region(
                               << w[1], w[Len(w)], w[Len(w)] >>, "f").added
                    /\ \A j \in 1..Len(patches[k].added) :
                           /\ ~IsSign(patches[k].added[j])
                           /\ patches[k].added[j].arg \notin PyAssertNames
                                  \/ patches[k].added[j].arg = w[1].arg
                    /\ IF k < Len(patches)
                       THEN patches[k + 1].start = p + WindowLen(a, b)
                       ELSE index = p + WindowLen(a, b)

\* A marker with both capture pairs, seven items, was rewritten.
C7_Witness ==
    /\ pc = "returned"
    /\ \E k \in 1..Len(patches) :
           /\ patches[k].n_removed = 7
           /\ MarkerWithCaptures(Slice(bytecode, patches[k].start,
                                       patches[k].start + 7), TRUE, TRUE)

\* ------------------------------------------------------------------ C8

\* Two identical signs stand side by side, or with one capture pair between.
HasDoubledSign(seq) ==
    \E i \in 1..Len(seq) :
        /\ IsSign(seq[i])
        /\ \/ /\ i + 1 <= Len(seq)
              /\ IsSign(seq[i + 1]) /\ seq[i + 1].name = seq[i].name
           \/ /\ i + 3 <= Len(seq)
              /\ IsCapturePair(seq[i + 1], seq[i + 2])
              /\ IsSign(seq[i + 3]) /\ seq[i + 3].name = seq[i].name

\* C8: the patches tile the scanned part of the input from left to right
\* without overlap and never reach past its end; an item outside a marker
\* window is emitted once, unchanged (a nested-unit load with only its
\* payload replaced); what a marker patch consumes is a marker window; the
\* output is the patches' items in order; an input without doubled sign and
\* without nested unit is returned item for item.
C8_SingleScanCopiesTheRest ==
    Scanned =>
        /\ \A k \in 1..Len(patches) :
               /\ patches[k].start = (IF k = 1 THEN 0 ELSE EndOf(k - 1))
               /\ patches[k].n_removed >= 1
               /\ EndOf(k) <= Len(bytecode)
               /\ patches[k].via = "default" =>
                      /\ patches[k].n_removed = 1
                      /\ patches[k].added = << bytecode[patches[k].start + 1] >>
               /\ patches[k].via = "load_code" =>
                      /\ patches[k].n_removed = 1
                      /\ Len(patches[k].added) = 1
                      /\ patches[k].added[1] =
                             [bytecode[patches[k].start + 1]
                                 EXCEPT !.code = patches[k].added[1].code]
               /\ patches[k].via = "increment" =>
                      MarkerAt(Slice(bytecode, patches[k].start, EndOf(k)), 0)
                      /\ \E a, b \in BOOLEAN :
                             /\ patches[k].n_removed = WindowLen(a, b)
                             /\ MarkerWithCaptures(
                                    Slice(bytecode, patches[k].start, EndOf(k)), a, b)
        /\ index = (IF patches = << >> THEN 0 ELSE EndOf(Len(patches)))
        /\ new_bytecode = Added(patches)
        /\ Finished =>
               /\ index = Len(bytecode)
               /\ result.ok
               /\ result.code = ToCode("f", new_bytecode)
               /\ (~HasDoubledSign(bytecode)
                   /\ \A i \in 1..Len(bytecode) : ~IsCodeLoad(bytecode[i])) =>
                      /\ new_bytecode = bytecode
                      /\ result.code.instrs = bytecode

\* A capture pair that a failed window had removed was copied through, next
\* to a marker that was rewritten.
C8_Witness ==
    /\ pc = "returned"
    /\ \E k \in 1..Len(patches) : patches[k].via = "increment"
    /\ \E k \in 1..(Len(patches) - 2) :
           /\ patches[k].via = "default"
           /\ patches[k + 1].via = "default"
           /\ patches[k + 2].via = "default"
           /\ IsCapturePair(bytecode[patches[k + 1].start + 1],
                            bytecode[patches[k + 2].start + 1])
           /\ RemoveCapturing(Window(bytecode, patches[k].start)).n_removed > 3

\* ----------------------------------------------------------------- C10

\* C10: patch_code applied to its own output raises nothing and returns
\* that output unchanged.
C10_Idempotent ==
    pc = "again" => (again.ok /\ again.code = result.code)

\* ------------------------------------------------------ the stack machine

\* A value is a sequence of numbers: an int <<0, v>>, a reference to an
\* object <<1, id>>, a pair of two such values <<2, ...>>; << >> is unbound.
IntV(v) == << 0, v >>

RefV(id) == << 1, id >>

TupleV(a, b) == << 2 >> \o a \o b

Unbound == << >>

IsInt(v) == Len(v) = 2 /\ v[1] = 0

IsRef(v) == Len(v) = 2 /\ v[1] = 1

IsTuple(v) == Len(v) = 5 /\ v[1] = 2

\* The names of the namespaces, the objects (each has the attributes of
\* AttrNames and the items 0 and 1), and the functions that compute the
\* operands of a subscript.
Names == {"x", "obj", "arr", "idx", "get_arr", "get_idx", "@py_assert1"}

Objects == {1, 2}

Indexes == {0, 1}

AttrNames == {"field", "other"}

\* The identities of the functions get_arr and get_idx.
FunctionId == [get_arr |-> 10, get_idx |-> 11]

\* TOS is Top(st, 0), TOS1 is Top(st, 1), ...
Top(st, k) == st[Len(st) - k]

Drop(st, k) == SubSeq(st, 1, Len(st) - k)

\* The first namespace of the chain that binds the name, 0 if none does.
RECURSIVE Resolve(_, _, _)
Resolve(chain, name, k) ==
    IF k > Len(chain) THEN 0
    ELSE IF chain[k][name] # Unbound THEN k
    ELSE Resolve(chain, name, k + 1)

\* One instruction of the machine: the frame after it. A name that is not
\* bound, an operand of the wrong type or a stack too short raise (status
\* "error"); the frame is "done" after its last instruction.
Exec(vm) ==
    LET ins == vm.code[vm.pc + 1]
        op == ins.name
        st == vm.stack
        fail == [vm EXCEPT !.status = "error"]
        go == [vm EXCEPT !.pc = vm.pc + 1,
                         !.status = IF vm.pc + 1 = Len(vm.code) THEN "done" ELSE "run"]
        load(chain) ==
            LET k == Resolve(chain, ins.arg, 1)
            IN  IF k = 0 THEN fail
                ELSE [go EXCEPT !.stack = Append(st, chain[k][ins.arg])]
        arith(sign) ==
            IF Len(st) < 2 \/ ~IsInt(Top(st, 1)) \/ ~IsInt(Top(st, 0)) THEN fail
            ELSE [go EXCEPT !.stack =
                     Append(Drop(st, 2), IntV(Top(st, 1)[2] + sign * Top(st, 0)[2]))]
    IN  CASE op = "LOAD_FAST" -> load(<< vm.fast >>)
          [] op = "LOAD_DEREF" -> load(<< vm.cells >>)
          [] op = "LOAD_GLOBAL" -> load(<< vm.globals, vm.builtins >>)
          [] op = "LOAD_NAME" -> load(<< vm.names, vm.globals, vm.builtins >>)
          [] op = "STORE_FAST" ->
                IF Len(st) < 1 THEN fail
                ELSE [go EXCEPT !.stack = Drop(st, 1), !.fast[ins.arg] = Top(st, 0)]
          [] op = "STORE_DEREF" ->
                IF Len(st) < 1 THEN fail
                ELSE [go EXCEPT !.stack = Drop(st, 1), !.cells[ins.arg] = Top(st, 0)]
          [] op = "STORE_GLOBAL" ->
                IF Len(st) < 1 THEN fail
                ELSE [go EXCEPT !.stack = Drop(st, 1), !.globals[ins.arg] = Top(st, 0)]
          [] op = "STORE_NAME" ->
                IF Len(st) < 1 THEN fail
                ELSE [go EXCEPT !.stack = Drop(st, 1), !.names[ins.arg] = Top(st, 0)]
          [] op = "LOAD_ATTR" ->
                IF Len(st) < 1 \/ ~IsRef(Top(st, 0)) THEN fail
                ELSE IF Top(st, 0)[2] \notin Objects THEN fail
                ELSE IF ins.arg \notin AttrNames THEN fail
                ELSE [go EXCEPT !.stack =
                         Append(Drop(st, 1), vm.attrs[Top(st, 0)[2]][ins.arg])]
          [] op = "STORE_ATTR" ->
                IF Len(st) < 2 \/ ~IsRef(Top(st, 0)) THEN fail
                ELSE IF Top(st, 0)[2] \notin Objects THEN fail
                ELSE IF ins.arg \notin AttrNames THEN fail
                ELSE [go EXCEPT !.stack = Drop(st, 2),
                                !.attrs[Top(st, 0)[2]][ins.arg] = Top(st, 1)]
          [] op = "BINARY_SUBSCR" ->
                IF Len(st) < 2 \/ ~IsRef(Top(st, 1)) \/ ~IsInt(Top(st, 0)) THEN fail
                ELSE IF Top(st, 1)[2] \notin Objects \/ Top(st, 0)[2] \notin Indexes
                THEN fail
                ELSE [go EXCEPT !.stack =
                         Append(Drop(st, 2), vm.items[Top(st, 1)[2]][Top(st, 0)[2]])]
          [] op = "STORE_SUBSCR" ->
                IF Len(st) < 3 \/ ~IsRef(Top(st, 1)) \/ ~IsInt(Top(st, 0)) THEN fail
                ELSE IF Top(st, 1)[2] \notin Objects \/ Top(st, 0)[2] \notin Indexes
                THEN fail
                ELSE [go EXCEPT !.stack = Drop(st, 3),
                                !.items[Top(st, 1)[2]][Top(st, 0)[2]] = Top(st, 2)]
          [] op = "LOAD_CONST" -> [go EXCEPT !.stack = Append(st, IntV(ins.n))]
          [] op = "INPLACE_ADD" -> arith(1)
          [] op = "INPLACE_SUBTRACT" -> arith(-1)
          [] op = "UNARY_POSITIVE" ->
                IF Len(st) < 1 \/ ~IsInt(Top(st, 0)) THEN fail ELSE go
          [] op = "UNARY_NEGATIVE" ->
                IF Len(st) < 1 \/ ~IsInt(Top(st, 0)) THEN fail
                ELSE [go EXCEPT !.stack = Append(Drop(st, 1), IntV(0 - Top(st, 0)[2]))]
          [] op = "POP_TOP" ->
                IF Len(st) < 1 THEN fail ELSE [go EXCEPT !.stack = Drop(st, 1)]
          [] op = "DUP_TOP" ->
                IF Len(st) < 1 THEN fail ELSE [go EXCEPT !.stack = Append(st, Top(st, 0))]
          [] op = "DUP_TOP_TWO" ->
                IF Len(st) < 2 THEN fail
                ELSE [go EXCEPT !.stack = st \o << Top(st, 1), Top(st, 0) >>]
          [] op = "ROT_TWO" ->
                IF Len(st) < 2 THEN fail
                ELSE [go EXCEPT !.stack = Drop(st, 2) \o << Top(st, 0), Top(st, 1) >>]
          [] op = "ROT_THREE" ->
                IF Len(st) < 3 THEN fail
                ELSE [go EXCEPT !.stack =
                         Drop(st, 3) \o << Top(st, 0), Top(st, 2), Top(st, 1) >>]
          [] op = "BUILD_TUPLE" ->
                IF Len(st) < 2 \/ IsTuple(Top(st, 1)) \/ IsTuple(Top(st, 0)) THEN fail
                ELSE [go EXCEPT !.stack =
                         Append(Drop(st, 2), TupleV(Top(st, 1), Top(st, 0)))]
          [] op = "UNPACK_SEQUENCE" ->
                IF Len(st) < 1 \/ ~IsTuple(Top(st, 0)) THEN fail
                ELSE [go EXCEPT !.stack =
                         Drop(st, 1) \o << SubSeq(Top(st, 0), 4, 5),
                                           SubSeq(Top(st, 0), 2, 3) >>]
          [] op = "CALL_FUNCTION" ->
                IF Len(st) < 1 \/ ~IsRef(Top(st, 0)) THEN fail
                ELSE IF Top(st, 0)[2] \notin DOMAIN vm.calls THEN fail
                ELSE LET f == Top(st, 0)[2]
                         k == vm.calls[f] + 1
                     IN  [go EXCEPT !.stack =
                                        Append(Drop(st, 1),
                                               vm.returns[f][((k - 1) % 2) + 1]),
                                    !.calls[f] = k]
          [] OTHER -> fail

\* -------------------------------------------------- the programs it runs

\* Entries that lie on the stack below the marker's operands, at most.
MaxBase == 2

\* The targets: the load, where its name is bound ("own" is the namespace
\* the paired store writes), how a subscript's operands are computed.
Targets ==
    [load : {"LOAD_FAST", "LOAD_DEREF"}, bound : {"own"}, operands : {"none"}]
    \cup [load : {"LOAD_GLOBAL"}, bound : {"own", "builtins"}, operands : {"none"}]
    \cup [load : {"LOAD_NAME"}, bound : {"own", "globals", "builtins"},
          operands : {"none"}]
    \cup [load : {"LOAD_ATTR"}, bound : {"own"}, operands : {"fast"}]
    \cup [load : {"BINARY_SUBSCR"}, bound : {"own"}, operands : {"fast", "calls"}]

\* The values a binding starts with.
Olds == {10, 42}

\* The sign of each marker of the program: one marker whose value stays on
\* the stack, or "++", "++", "--" as three statements.
SignLists ==
    { << "UNARY_POSITIVE" >>, << "UNARY_NEGATIVE" >>,
      << "UNARY_POSITIVE", "UNARY_POSITIVE", "UNARY_NEGATIVE" >> }

\* The instructions that put the load's operands on the stack.
Operands(sc) ==
    IF sc.target.load = "LOAD_ATTR"
    THEN << Instr("LOAD_FAST", "obj", 0, << >>, 0) >>
    ELSE IF sc.target.load # "BINARY_SUBSCR" THEN << >>
    ELSE IF sc.target.operands = "fast"
    THEN << Instr("LOAD_FAST", "arr", 0, << >>, 0),
            Instr("LOAD_FAST", "idx", 0, << >>, 0) >>
    ELSE << Instr("LOAD_GLOBAL", "get_arr", 0, << >>, 0),
            Instr("CALL_FUNCTION", "", 0, << >>, 0),
            Instr("LOAD_GLOBAL", "get_idx", 0, << >>, 0),
            Instr("CALL_FUNCTION", "", 0, << >>, 0) >>

LoadOf(sc) ==
    Instr(sc.target.load,
          IF sc.target.load = "LOAD_ATTR" THEN "field"
          ELSE IF sc.target.load = "BINARY_SUBSCR" THEN "" ELSE "x",
          0, << >>, 0)

Capture ==
    << Instr("STORE_FAST", "@py_assert1", 0, << >>, 0),
       Instr("LOAD_FAST", "@py_assert1", 0, << >>, 0) >>

\* What the compiler (and pytest's assertion rewriting, for the captures)
\* emits for one marker with the given sign.
MarkerCode(sc, sign) ==
    Operands(sc) \o << LoadOf(sc) >>
    \o (IF sc.afterLoad THEN Capture ELSE << >>)
    \o << Instr(sign, "", 0, << >>, 0) >>
    \o (IF sc.afterSign THEN Capture ELSE << >>)
    \o << Instr(sign, "", 0, << >>, 0) >>

RECURSIVE Statements(_, _)
Statements(sc, signs) ==
    IF signs = << >> THEN << >>
    ELSE MarkerCode(sc, Head(signs)) \o << Instr("POP_TOP", "", 0, << >>, 0) >>
         \o Statements(sc, Tail(signs))

\* The input: the code object of the scenario.
Compiled(sc) ==
    Code("f", Placed(IF Len(sc.signs) = 1 THEN MarkerCode(sc, sc.signs[1])
                     ELSE Statements(sc, sc.signs), 0))

\* The frame a code object starts in under the scenario.
Frame(sc, code) ==
    LET none == [n \in Names |-> Unbound]
        old == IntV(sc.old)
        at(ns) == IF sc.target.bound = ns THEN [none EXCEPT !["x"] = old] ELSE none
        own(load) == IF sc.target.load = load THEN at("own") ELSE none
    IN  [code |-> code.instrs,
         pc |-> 0,
         status |-> "run",
         stack |-> [i \in 1..sc.base |-> IntV(100 + i)],
         fast |-> [own("LOAD_FAST") EXCEPT
                      !["obj"] = RefV(sc.object),
                      !["arr"] = RefV(sc.object),
                      !["idx"] = IntV(sc.index)],
         cells |-> own("LOAD_DEREF"),
         names |-> own("LOAD_NAME"),
         globals |-> [(IF sc.target.load = "LOAD_GLOBAL" THEN at("own")
                       ELSE IF sc.target.load = "LOAD_NAME" THEN at("globals")
                       ELSE none) EXCEPT
                         !["get_arr"] = RefV(FunctionId.get_arr),
                         !["get_idx"] = RefV(FunctionId.get_idx)],
         builtins |-> at("builtins"),
         attrs |-> [o \in Objects |-> [a \in AttrNames |-> old]],
         items |-> [o \in Objects |-> [i \in Indexes |-> old]],
         calls |-> (FunctionId.get_arr :> 0) @@ (FunctionId.get_idx :> 0),
         returns |->
            (FunctionId.get_arr :> << RefV(sc.object), RefV(3 - sc.object) >>)
            @@ (FunctionId.get_idx :> << IntV(sc.index), IntV(1 - sc.index) >>)]

\* No scenario, and a frame that runs nothing.
NoScenario ==
    [target |-> [load |-> "LOAD_FAST", bound |-> "own", operands |-> "none"],
     signs |-> << "UNARY_POSITIVE" >>, afterLoad |-> FALSE, afterSign |-> FALSE,
     base |-> 0, old |-> 0, object |-> 1, index |-> 0]

Idle == Frame(NoScenario, Code("f", << >>))

VmIdle == scenario = NoScenario /\ vmO = Idle /\ vmR = Idle

VmInit ==
    /\ scenario \in
          [target : Targets, signs : SignLists, afterLoad : BOOLEAN,
           afterSign : BOOLEAN, base : 0..MaxBase, old : Olds,
           object : Objects, index : Indexes]
    /\ scenario.target.load \notin {"LOAD_ATTR", "BINARY_SUBSCR"} => scenario.object = 1
    /\ scenario.target.load # "BINARY_SUBSCR" => scenario.index = 0
    /\ vmO = Frame(scenario, Compiled(scenario))
    /\ vmR = Idle

\* The frame of the input executes one instruction.
StepCompiled ==
    /\ vmO.status = "run"
    /\ vmR = Idle
    /\ vmO' = Exec(vmO)
    /\ UNCHANGED << scenario, vmR >>
    /\ UNCHANGED << rwVars, regVars >>

\* enable_increments(f): patch_code rewrites the input, and the rewritten
\* code object is what the function runs from then on.
Enable ==
    /\ vmO.status # "run"
    /\ vmR = Idle
    /\ \E patched \in {patch_code(Compiled(scenario))} :
           /\ patched.ok
           /\ vmR' = Frame(scenario, patched.code)
    /\ UNCHANGED << scenario, vmO >>
    /\ UNCHANGED << rwVars, regVars >>

\* The frame of the rewritten code executes one instruction.
StepRewritten ==
    /\ vmR.status = "run"
    /\ vmR # Idle
    /\ vmR' = Exec(vmR)
    /\ UNCHANGED << scenario, vmO >>
    /\ UNCHANGED << rwVars, regVars >>

\* ------------------------------------------- PatchingFinder's registry

Threads == {1, 2}

ImportPaths == {"package_with_increments", "other_package"}

\* A thread outside register_import_path, with the calls it has made.
Outside(calls) == [at |-> "outside", import_path |-> "", calls |-> calls]

RegInit ==
    /\ meta_path = << "BuiltinImporter", "FrozenImporter", "PathFinder" >>
    /\ _patched_import_paths = {}
    /\ thread = [t \in Threads |-> Outside(0)]
    /\ registered = {}

\* Line 53: the thread enters register_import_path and tests
\* `not cls._patched_import_paths`.
Test(t, import_path) ==
    /\ thread[t].at = "outside"
    /\ thread[t].calls < MaxCalls
    /\ thread' = [thread EXCEPT ![t] =
                     [at |-> IF _patched_import_paths = {} THEN "insert" ELSE "add",
                      import_path |-> import_path,
                      calls |-> thread[t].calls + 1]]
    /\ UNCHANGED << meta_path, _patched_import_paths, registered >>
    /\ UNCHANGED << rwVars, vmVars >>

\* Line 54: sys.meta_path.insert(0, cls)
Insert(t) ==
    /\ thread[t].at = "insert"
    /\ meta_path' = << "PatchingFinder" >> \o meta_path
    /\ thread' = [thread EXCEPT ![t].at = "add"]
    /\ UNCHANGED << _patched_import_paths, registered >>
    /\ UNCHANGED << rwVars, vmVars >>

\* Line 56: cls._patched_import_paths.add(import_path), and the call returns.
Add(t) ==
    /\ thread[t].at = "add"
    /\ _patched_import_paths' = _patched_import_paths \cup {thread[t].import_path}
    /\ registered' = registered \cup {thread[t].import_path}
    /\ thread' = [thread EXCEPT ![t] = Outside(thread[t].calls)]
    /\ UNCHANGED meta_path
    /\ UNCHANGED << rwVars, vmVars >>

\* ---------------------------------------------------- C1, C3, C4 and C5

Single == Len(scenario.signs) = 1

Plain == ~scenario.afterLoad /\ ~scenario.afterSign

Delta(sign) == IF sign = "UNARY_POSITIVE" THEN 1 ELSE 0 - 1

\* The value one marker leaves in its target.
NewValue == IntV(scenario.old + Delta(scenario.signs[1]))

\* What the frame holds where the paired store of the load writes: the
\* name in the namespace of the store, the attribute of the object, the item
\* of the container at the index.
Stored(vm) ==
    CASE scenario.target.load = "LOAD_FAST" -> vm.fast["x"]
      [] scenario.target.load = "LOAD_DEREF" -> vm.cells["x"]
      [] scenario.target.load = "LOAD_GLOBAL" -> vm.globals["x"]
      [] scenario.target.load = "LOAD_NAME" -> vm.names["x"]
      [] scenario.target.load = "LOAD_ATTR" -> vm.attrs[scenario.object]["field"]
      [] scenario.target.load = "BINARY_SUBSCR" ->
             vm.items[scenario.object][scenario.index]

\* What the frame holds in the binding the load read its value from.
Read(vm) ==
    IF scenario.target.bound = "builtins" THEN vm.builtins["x"]
    ELSE IF scenario.target.bound = "globals" THEN vm.globals["x"]
    ELSE Stored(vm)

\* The frame with the value v where the paired store writes.
WithStored(vm, v) ==
    CASE scenario.target.load = "LOAD_FAST" -> [vm EXCEPT !.fast["x"] = v]
      [] scenario.target.load = "LOAD_DEREF" -> [vm EXCEPT !.cells["x"] = v]
      [] scenario.target.load = "LOAD_GLOBAL" -> [vm EXCEPT !.globals["x"] = v]
      [] scenario.target.load = "LOAD_NAME" -> [vm EXCEPT !.names["x"] = v]
      [] scenario.target.load = "LOAD_ATTR" ->
             [vm EXCEPT !.attrs[scenario.object]["field"] = v]
      [] scenario.target.load = "BINARY_SUBSCR" ->
             [vm EXCEPT !.items[scenario.object][scenario.index] = v]

\* The namespaces, attributes and items of a frame.
Memory(vm) ==
    << vm.fast, vm.cells, vm.names, vm.globals, vm.builtins, vm.attrs, vm.items >>

\* The frame the rewritten code started in.
Start == Frame(scenario, Code("f", vmR.code))

Base == [i \in 1..scenario.base |-> IntV(100 + i)]

Count(seq, name) == Cardinality({ i \in 1..Len(seq) : seq[i].name = name })

\* C1, as amended: the replacement of a marker runs to its end, leaves
\* old+1 ("++") or old-1 ("--") on top of the stack and stores that value
\* with the store paired to the load: under the same name in the namespace
\* that store writes, in the same attribute of the same object, in the same
\* item of the same container; nothing else in memory changes. That is the
\* binding the load read whenever the name is bound in the store's
\* namespace. "++", "++", "--" on one target leave it at old+1.
C1_ValueStoredByPairedStore ==
    /\ vmR.status # "error"
    /\ (vmR.status = "done" /\ Single) =>
           /\ vmR.stack = Append(Base, NewValue)
           /\ Stored(vmR) = NewValue
           /\ Memory(vmR) = Memory(WithStored(Start, NewValue))
           /\ scenario.target.bound = "own" => Read(vmR) = NewValue
    /\ (vmR.status = "done" /\ ~Single /\ scenario.target.operands # "calls") =>
           /\ vmR.stack = Base
           /\ Stored(vmR) = IntV(scenario.old + 1)
           /\ Memory(vmR) = Memory(WithStored(Start, IntV(scenario.old + 1)))

\* C1: the new value is on top of the stack and in the very binding the
\* load read.
C1_ValueStoredInBindingRead ==
    (vmR.status = "done" /\ Single) =>
        /\ Top(vmR.stack, 0) = NewValue
        /\ Read(vmR) = NewValue

\* "++", "++", "--" ran on a local that started at 42; a marker on an
\* attribute and one on an item ran as expressions.
C1_Witness ==
    /\ vmR.status = "done"
    /\ \/ /\ ~Single /\ scenario.old = 42 /\ scenario.target.load = "LOAD_FAST"
          /\ vmR.fast["x"] = IntV(43)
       \/ /\ Single /\ scenario.old = 10 /\ scenario.target.load = "LOAD_ATTR"
          /\ scenario.signs[1] = "UNARY_POSITIVE"
          /\ Top(vmR.stack, 0) = IntV(11)
          /\ scenario.base = MaxBase

\* C3: the rewritten code holds the instructions that compute container and
\* index once per marker, as the input does, and one BINARY_SUBSCR per
\* marker; running it calls each of the two functions once per marker, and
\* the one item that changes is the item of the container and index the
\* calls returned to the load.
C3_SingleEvaluation ==
    (scenario.target.load = "BINARY_SUBSCR" /\ vmR # Idle) =>
        /\ vmR.status # "error"
        /\ Count(vmR.code, "CALL_FUNCTION") = Count(vmO.code, "CALL_FUNCTION")
        /\ Count(vmR.code, "LOAD_GLOBAL") = Count(vmO.code, "LOAD_GLOBAL")
        /\ Count(vmR.code, "BINARY_SUBSCR") = Len(scenario.signs)
        /\ \A f \in DOMAIN vmR.calls : vmR.calls[f] <= Len(scenario.signs)
        /\ vmR.status = "done" =>
               /\ scenario.target.operands = "calls" =>
                      \A f \in DOMAIN vmR.calls : vmR.calls[f] = Len(scenario.signs)
               /\ Single =>
                      /\ vmR.items =
                            [Start.items EXCEPT
                                ![scenario.object][scenario.index] = NewValue]
                      /\ Top(vmR.stack, 0) = NewValue

\* A marker on get_arr()[get_idx()] ran: each function was called once.
C3_Witness ==
    /\ vmR.status = "done"
    /\ Single
    /\ scenario.target.operands = "calls"
    /\ vmR.calls[FunctionId.get_arr] = 1
    /\ vmR.calls[FunctionId.get_idx] = 1
    /\ vmR.items[scenario.object][scenario.index] = NewValue

\* C4: the stack after the replacement is one entry deeper than after the
\* 3-instruction marker.
C4_OneDeeperThanMarker ==
    (vmO.status = "done" /\ vmR.status = "done" /\ Single /\ Plain) =>
        Len(vmR.stack) = Len(vmO.stack) + 1

\* C4, as amended: the stack after the replacement is as deep as after the
\* 3-instruction marker: one value, the result, lies where the load's
\* operands lay, and no further value is left.
C4_AsDeepAsMarker ==
    /\ vmO.status # "error" /\ vmR.status # "error"
    /\ (vmO.status = "done" /\ vmR.status = "done" /\ Single /\ Plain) =>
           /\ Len(vmR.stack) = Len(vmO.stack)
           /\ Len(vmR.stack) = scenario.base + 1

\* The 3-instruction marker on an item and its replacement both ran, above
\* two entries.
C4_Witness ==
    /\ vmO.status = "done" /\ vmR.status = "done" /\ Single /\ Plain
    /\ scenario.target.load = "BINARY_SUBSCR"
    /\ scenario.base = MaxBase
    /\ Len(vmO.stack) = MaxBase + 1

\* C5: with no, one or two capture pairs in the window, the stack after the
\* rewritten code is as deep as after the input, and at every instruction
\* of the rewritten code the entries below the load's operands lie
\* untouched at the bottom of the stack.
C5_SameDepthBaseUntouched ==
    /\ vmR.status # "error"
    /\ (vmO.status = "done" /\ vmR.status = "done") =>
           Len(vmR.stack) - scenario.base = Len(vmO.stack) - scenario.base
    /\ vmR # Idle =>
           /\ Len(vmR.stack) >= scenario.base
           /\ SubSeq(vmR.stack, 1, scenario.base) = Base

\* A window with two capture pairs on an attribute was run both ways.
C5_Witness ==
    /\ vmO.status = "done" /\ vmR.status = "done"
    /\ scenario.afterLoad /\ scenario.afterSign
    /\ scenario.target.load = "LOAD_ATTR"
    /\ scenario.base = MaxBase
    /\ Count(vmO.code, "STORE_FAST") = 2
    /\ Count(vmR.code, "STORE_FAST") = 0
    /\ Len(vmR.stack) = Len(vmO.stack)

\* ------------------------------------------------------------------ C9

\* C9: PatchingFinder is in sys.meta_path at most once, exactly once as soon
\* as a registration has returned, and every registered path is in the
\* registry.
C9_InstalledOnce ==
    /\ Cardinality({ i \in 1..Len(meta_path) : meta_path[i] = "PatchingFinder" }) <= 1
    /\ registered # {} =>
           Cardinality({ i \in 1..Len(meta_path) : meta_path[i] = "PatchingFinder" }) = 1
    /\ registered \subseteq _patched_import_paths

\* ----------------------------------------------------- the specifications

\* The rewriter on every input of up to MaxTokens tokens.
Init == RwInit /\ VmIdle /\ RegInit

Next ==
    \/ \E tok \in TokenNames : AddToken(tok)
    \/ \E from \in 0..(2 * MaxTokens) : Wrap(from)
    \/ Call
    \/ Repatch

Spec == Init /\ [][Next]_vars

\* The stack machine on a marker as compiled and as rewritten.
ExecInit == VmInit /\ RwInit /\ RegInit

ExecNext ==
    \/ StepCompiled
    \/ Enable
    \/ StepRewritten

ExecSpec == ExecInit /\ [][ExecNext]_vars

\* Threads that register import paths.
RegSpecInit == RegInit /\ RwInit /\ VmIdle

RegSpecNext ==
    \/ \E t \in Threads, import_path \in ImportPaths : Test(t, import_path)
    \/ \E t \in Threads : Insert(t)
    \/ \E t \in Threads : Add(t)

RegSpec == RegSpecInit /\ [][RegSpecNext]_vars

====
